---- MODULE Spec2Model ----
(***************************************************************************)
(* Model of BiblicalVideoEditor (src/video_editor.py) and of main().       *)
(* Spec lets a caller use the editor's methods in any order (the Python    *)
(* API); SpecMain is one run of the command line, main().                  *)
(*                                                                         *)
(* The editor holds one clip, self.video_clip.  Every editing method wraps *)
(* the current clip in a new moviepy clip and stores the wrapper back:     *)
(*   add_text_overlay : CompositeVideoClip([video_clip, txt_clip])         *)
(*   add_intro_text   : concatenate_videoclips([intro_clip, video_clip])   *)
(*   add_outro_text   : concatenate_videoclips([video_clip, outro_clip])   *)
(* so the clip is a chain of wrappers around the VideoFileClip.  The chain *)
(* is kept as the sequence video_clip.layers, innermost wrapper first.     *)
(*                                                                         *)
(* Times are Python floats in the source; they are modelled as exact       *)
(* rationals (records [num, den] in lowest terms), so L / (N + 1) is the   *)
(* true quotient.  Floating-point rounding is not modelled.                *)
(*                                                                         *)
(* A Python str is a sequence of one-character strings, a text file the    *)
(* sequence of its characters; SpecQuotes writes a list of quotes with     *)
(* save_quotes_to_file (src/biblical_quotes.py) and reads it back the way  *)
(* main() reads a quote file.                                              *)
(***************************************************************************)
EXTENDS Integers, Sequences, FiniteSets, TLC

(* ---------------------------- bounds ---------------------------------- *)
\* most wrappers around the loaded file
MaxLayers == 3
\* most lines of a quote file, most quotes of one quote loop
MaxQuotes == 3
\* most successful save_video calls
MaxRenders == 2
\* most quotes of a list handed to save_quotes_to_file
MaxSaved == 2
\* most characters of such a quote
MaxTextLen == 2

\* durations (seconds) of the input video files
Lengths == {8, 30, 100}
\* start_time arguments of add_text_overlay
StartTimes == {0, 35}
\* explicit duration arguments of add_text_overlay
Durations == {5}
\* duration arguments of add_intro_text / add_outro_text
BannerDurations == {4, 5}
\* what the path self.input_video names: a media file, a file VideoFileClip
\* cannot read, or nothing
InputStatus == {"media", "unreadable", "missing"}

(* --------------------------- rationals -------------------------------- *)
Abs(x) == IF x < 0 THEN -x ELSE x

RECURSIVE GCD(_, _)
GCD(a, b) == IF b = 0 THEN a ELSE GCD(b, a % b)

\* n / d in lowest terms, d > 0
Rat(n, d) ==
    LET g == GCD(Abs(n), d)
    IN  [num |-> n \div g, den |-> d \div g]

RInt(i) == [num |-> i, den |-> 1]
RAdd(a, b) == Rat(a.num * b.den + b.num * a.den, a.den * b.den)
RSub(a, b) == Rat(a.num * b.den - b.num * a.den, a.den * b.den)
RMul(a, b) == Rat(a.num * b.num, a.den * b.den)
\* a / b for b > 0
RDiv(a, b) == Rat(a.num * b.den, a.den * b.num)
RLe(a, b) == a.num * b.den <= b.num * a.den
RLt(a, b) == a.num * b.den < b.num * a.den
RMax(a, b) == IF RLe(a, b) THEN b ELSE a

(* ----------------------------- state ---------------------------------- *)
VARIABLES
    input_status,  \* what the path self.input_video names (InputStatus)
    input_video,   \* duration of the file self.input_video names
    video_clip,    \* self.video_clip: [loaded, base, layers]
    closed,        \* close() has been called on the current video_clip
    renders,       \* number of completed write_videofile calls
    last,          \* the most recent call: its arguments and outcome
    pc,            \* where main() is; "api" when the editor is used directly
    args,          \* the parsed command line of main()
    exit_code,     \* exit status of main(), -1 while it runs
    quote_file,    \* the characters of the file --quote-file names
    quotes         \* the list `quotes`: of main(), or the one to be saved

editor == <<input_status, input_video, video_clip, closed, renders, last>>
cli == <<pc, args, exit_code, quote_file, quotes>>
vars == <<input_status, input_video, video_clip, closed, renders, last,
          pc, args, exit_code, quote_file, quotes>>

\* a slip: the guard left out
IsNone_Never(clip) == FALSE

\* self.video_clip is None
IsNone(clip) == ~clip.loaded

\* self.video_clip = None
None == [loaded |-> FALSE, base |-> RInt(0), layers |-> <<>>]

\* VideoFileClip(self.input_video)
VideoFileClip(L) == [loaded |-> TRUE, base |-> RInt(L), layers |-> <<>>]

\* the default duration main() gives every quote of a quote file
QuoteDuration == RInt(5)

\* the text of the --text, --intro and --outro options
Title == << "t" >>

Layer(kind, text, start, duration) ==
    [kind |-> kind, text |-> text, start |-> start, duration |-> duration]

\* clip.duration of the chain of wrappers `layers` around a file of length
\* `base`: CompositeVideoClip takes the largest end of its clips,
\* concatenate_videoclips the sum of the durations.
RECURSIVE ClipDuration(_, _)
ClipDuration(base, layers) ==
    IF layers = <<>> THEN base
    ELSE LET top   == layers[Len(layers)]
             inner == ClipDuration(base, SubSeq(layers, 1, Len(layers) - 1))
         IN  IF top.kind = "overlay"
             THEN RMax(inner, RAdd(top.start, top.duration))
             ELSE RAdd(inner, top.duration)

duration(clip) == ClipDuration(clip.base, clip.layers)

Call(op, start, given, dur, n, before, error) ==
    [op |-> op, start |-> start, given |-> given, duration |-> dur,
     n |-> n, before |-> before, error |-> error]

NoArgs(op, error) ==
    Call(op, RInt(0), FALSE, RInt(0), 0, duration(video_clip), error)

(* ---------------------------- actions --------------------------------- *)
\* the parsed command line: which options are given, and their values
NoOptions ==
    [intro |-> FALSE, text |-> FALSE, start_time |-> RInt(0),
     given |-> FALSE, duration |-> RInt(0), quote_file |-> "none",
     outro |-> FALSE]

\* the editor right after __init__
Constructed ==
    /\ input_video \in Lengths
    /\ video_clip = None
    /\ closed = FALSE
    /\ renders = 0
    /\ last = [op |-> "__init__", start |-> RInt(0), given |-> FALSE,
               duration |-> RInt(0), n |-> 0, before |-> RInt(0),
               error |-> "none"]

\* __init__ returned, so the path named a file then; the file may still be
\* one that VideoFileClip cannot read
Init ==
    /\ input_status \in InputStatus \ {"missing"}
    /\ Constructed
    /\ pc = "api"
    /\ args = NoOptions
    /\ exit_code = -1
    /\ quote_file = <<>>
    /\ quotes = <<>>

\* a slip: self.video_clip assigned although the file could not be read
load_video_AssignsAnyway ==
    /\ video_clip' = VideoFileClip(input_video)
    /\ closed' = FALSE
    /\ last' = NoArgs("load_video",
                      IF input_status = "media" THEN "none" ELSE "IOError")
    /\ UNCHANGED <<input_status, input_video, renders>>

\* VideoFileClip(...) raises before self.video_clip is assigned when the
\* file cannot be read
load_video ==
    /\ IF input_status = "media"
       THEN /\ video_clip' = VideoFileClip(input_video)
            /\ closed' = FALSE
            /\ last' = NoArgs("load_video", "none")
       ELSE /\ last' = NoArgs("load_video", "IOError")
            /\ UNCHANGED <<video_clip, closed>>
    /\ UNCHANGED <<input_status, input_video, renders>>

\* a slip: the whole clip duration, start_time not subtracted
ResolveDuration_WholeClip(given, dur, clipDuration, start_time) ==
    IF given THEN dur ELSE clipDuration

\* duration = self.video_clip.duration - start_time when duration is None
ResolveDuration(given, dur, clipDuration, start_time) ==
    IF given THEN dur ELSE RSub(clipDuration, start_time)

\* a slip: CompositeVideoClip([txt_clip, self.video_clip]), the text clip
\* put under everything the clip already holds
CompositeVideoClip_Beneath(clip, text, start_time, dur) ==
    [clip EXCEPT !.layers =
        << Layer("overlay", text, start_time, dur) >> \o @]

\* self.video_clip = CompositeVideoClip([self.video_clip, txt_clip])
CompositeVideoClip(clip, text, start_time, dur) ==
    [clip EXCEPT !.layers =
        Append(@, Layer("overlay", text, start_time, dur))]

\* a slip: a caption refused when its time range meets that of a caption
\* already on the clip
add_text_overlay_RejectsOverlap(text, start_time, given, dur) ==
    /\ Len(video_clip.layers) < MaxLayers
    /\ IF IsNone(video_clip)
       THEN /\ last' = Call("add_text_overlay", start_time, given, dur, 0,
                            RInt(0), "ValueError")
            /\ UNCHANGED video_clip
       ELSE LET d == ResolveDuration(given, dur, duration(video_clip),
                                     start_time)
                clash ==
                    \E i \in 1..Len(video_clip.layers) :
                        LET l == video_clip.layers[i]
                        IN  /\ l.kind = "overlay"
                            /\ RLt(start_time, RAdd(l.start, l.duration))
                            /\ RLt(l.start, RAdd(start_time, d))
            IN  IF clash
                THEN /\ last' = Call("add_text_overlay", start_time, given,
                                     d, 0, duration(video_clip),
                                     "ValueError")
                     /\ UNCHANGED video_clip
                ELSE /\ video_clip' = CompositeVideoClip(video_clip, text,
                                                         start_time, d)
                     /\ last' = Call("add_text_overlay", start_time, given,
                                     d, 1, duration(video_clip), "none")
    /\ UNCHANGED <<input_status, input_video, closed, renders>>

add_text_overlay(text, start_time, given, dur) ==
    /\ Len(video_clip.layers) < MaxLayers
    /\ IF IsNone(video_clip)
       THEN /\ last' = Call("add_text_overlay", start_time, given, dur, 0,
                            RInt(0), "ValueError")
            /\ UNCHANGED video_clip
       ELSE LET d == ResolveDuration(given, dur, duration(video_clip),
                                     start_time)
            IN  /\ video_clip' = CompositeVideoClip(video_clip, text,
                                                    start_time, d)
                /\ last' = Call("add_text_overlay", start_time, given, d, 1,
                                duration(video_clip), "none")
    /\ UNCHANGED <<input_status, input_video, closed, renders>>

\* concatenate_videoclips([intro_clip, self.video_clip])
ConcatIntro(clip, dur) ==
    [clip EXCEPT !.layers = Append(@, Layer("intro", Title, RInt(0), dur))]

\* concatenate_videoclips([self.video_clip, outro_clip])
ConcatOutro(clip, dur) ==
    [clip EXCEPT !.layers =
        Append(@, Layer("outro", Title, duration(clip), dur))]

add_intro_text(dur) ==
    /\ Len(video_clip.layers) < MaxLayers
    /\ IF IsNone(video_clip)
       THEN /\ last' = Call("add_intro_text", RInt(0), TRUE, dur, 0,
                            RInt(0), "ValueError")
            /\ UNCHANGED video_clip
       ELSE /\ video_clip' = ConcatIntro(video_clip, dur)
            /\ last' = Call("add_intro_text", RInt(0), TRUE, dur, 1,
                            duration(video_clip), "none")
    /\ UNCHANGED <<input_status, input_video, closed, renders>>

add_outro_text(dur) ==
    /\ Len(video_clip.layers) < MaxLayers
    /\ IF IsNone(video_clip)
       THEN /\ last' = Call("add_outro_text", RInt(0), TRUE, dur, 0,
                            RInt(0), "ValueError")
            /\ UNCHANGED video_clip
       ELSE /\ video_clip' = ConcatOutro(video_clip, dur)
            /\ last' = Call("add_outro_text", RInt(0), TRUE, dur, 1,
                            duration(video_clip), "none")
    /\ UNCHANGED <<input_status, input_video, closed, renders>>

\* interval = video_duration / (len(quotes) + 1)
Interval(video_duration, n) == RDiv(video_duration, RInt(n + 1))

\* a slip: interval * idx, the first quote flush with the start
QuoteStartTime_FromZero(interval, idx) == RMul(interval, RInt(idx))

\* start_time = interval * (idx + 1), idx counted from 0
QuoteStartTime(interval, idx) == RMul(interval, RInt(idx + 1))

\* the loop of main() over the list qs of quotes: for idx, quote in
\* enumerate(quotes), a call of
\* add_text_overlay(quote, duration=5.0, start_time=interval * (idx + 1))
RECURSIVE AddQuotes(_, _, _, _)
AddQuotes(clip, interval, idx, qs) ==
    IF idx >= Len(qs) THEN clip
    ELSE AddQuotes(CompositeVideoClip(clip, qs[idx + 1],
                       QuoteStartTime(interval, idx),
                       ResolveDuration(TRUE, QuoteDuration, duration(clip),
                                       QuoteStartTime(interval, idx))),
                   interval, idx + 1, qs)

main_quote_file(qs) ==
    /\ video_clip.loaded
    /\ Len(video_clip.layers) + Len(qs) <= MaxLayers
    /\ LET video_duration == duration(video_clip)
           interval == Interval(video_duration, Len(qs))
       IN  /\ video_clip' = AddQuotes(video_clip, interval, 0, qs)
           /\ last' = Call("main_quote_file", RInt(0), TRUE, QuoteDuration,
                           Len(qs), video_duration, "none")
    /\ UNCHANGED <<input_status, input_video, closed, renders>>

\* a slip: the clip closed when write_videofile raises
save_video_ClosesOnError(ok) ==
    /\ renders < MaxRenders
    /\ IF IsNone(video_clip)
       THEN /\ last' = NoArgs("save_video", "ValueError")
            /\ UNCHANGED <<renders, closed>>
       ELSE IF closed /\ video_clip.layers = <<>>
       THEN /\ last' = NoArgs("save_video", "AttributeError")
            /\ UNCHANGED <<renders, closed>>
       ELSE IF ok
            THEN /\ renders' = renders + 1
                 /\ last' = NoArgs("save_video", "none")
                 /\ UNCHANGED closed
            ELSE /\ last' = NoArgs("save_video", "IOError")
                 /\ closed' = TRUE
                 /\ UNCHANGED renders
    /\ UNCHANGED <<input_status, input_video, video_clip>>

\* write_videofile either completes or raises; on a VideoFileClip whose
\* close() was called it raises, the reader being gone
save_video(ok) ==
    /\ renders < MaxRenders
    /\ IF IsNone(video_clip)
       THEN /\ last' = NoArgs("save_video", "ValueError")
            /\ UNCHANGED renders
       ELSE IF closed /\ video_clip.layers = <<>>
       THEN /\ last' = NoArgs("save_video", "AttributeError")
            /\ UNCHANGED renders
       ELSE IF ok
            THEN /\ renders' = renders + 1
                 /\ last' = NoArgs("save_video", "none")
            ELSE /\ last' = NoArgs("save_video", "IOError")
                 /\ UNCHANGED renders
    /\ UNCHANGED <<input_status, input_video, video_clip, closed>>

cleanup ==
    /\ closed' = (IF video_clip.loaded THEN TRUE ELSE closed)
    /\ last' = NoArgs("cleanup", "none")
    /\ UNCHANGED <<input_status, input_video, video_clip, renders>>

\* the letters quotes are made of
Letters == << "a", "b", "c", "d", "e" >>

\* a list of n quotes, all different
QuoteList(n) == [i \in 1..n |-> << Letters[i] >>]

\* the methods called in any order, as a caller of the Python API may
Next ==
    \/ load_video /\ UNCHANGED cli
    \/ \E s \in StartTimes :
          \/ add_text_overlay(Title, RInt(s), FALSE, RInt(0))
                /\ UNCHANGED cli
          \/ \E d \in Durations :
                add_text_overlay(Title, RInt(s), TRUE, RInt(d))
                   /\ UNCHANGED cli
    \/ \E d \in BannerDurations : add_intro_text(RInt(d)) /\ UNCHANGED cli
    \/ \E d \in BannerDurations : add_outro_text(RInt(d)) /\ UNCHANGED cli
    \/ \E n \in 0..MaxQuotes :
          main_quote_file(QuoteList(n)) /\ UNCHANGED cli
    \/ \E ok \in BOOLEAN : save_video(ok) /\ UNCHANGED cli
    \/ cleanup /\ UNCHANGED cli

Spec == Init /\ [][Next]_vars

(* ----------------------------- quote files ---------------------------- *)
\* the characters str.strip() removes
IsSpace(c) == c \in {" ", "\n"}

RECURSIVE lstrip(_)
lstrip(s) == IF s # <<>> /\ IsSpace(Head(s)) THEN lstrip(Tail(s)) ELSE s

RECURSIVE rstrip(_)
rstrip(s) ==
    IF s # <<>> /\ IsSpace(s[Len(s)])
    THEN rstrip(SubSeq(s, 1, Len(s) - 1))
    ELSE s

\* line.strip()
strip(s) == lstrip(rstrip(s))

\* the length of the first line of a non-empty text: up to and including
\* its first newline, or all of it when it has none
FirstLine(content) ==
    IF \E i \in 1..Len(content) : content[i] = "\n"
    THEN CHOOSE i \in 1..Len(content) :
            /\ content[i] = "\n"
            /\ \A j \in 1..(i - 1) : content[j] # "\n"
    ELSE Len(content)

\* the lines iterating over an open text file yields (f.readlines()), each
\* with its newline
RECURSIVE readlines(_)
readlines(content) ==
    IF content = <<>> THEN <<>>
    ELSE << SubSeq(content, 1, FirstLine(content)) >>
         \o readlines(SubSeq(content, FirstLine(content) + 1, Len(content)))

NonEmpty(s) == s # <<>>

\* a slip: the filter forgotten, quotes = [line.strip() for line in f]
ReadQuotes_KeepsBlank(content) ==
    [i \in 1..Len(readlines(content)) |-> strip(readlines(content)[i])]

\* quotes = [line.strip() for line in f if line.strip()]
ReadQuotes(content) ==
    SelectSeq([i \in 1..Len(readlines(content)) |->
                  strip(readlines(content)[i])],
              NonEmpty)

\* a slip: f.write(quote), the newline forgotten
RECURSIVE Written_NoNewline(_)
Written_NoNewline(qs) ==
    IF qs = <<>> THEN <<>>
    ELSE Head(qs) \o Written_NoNewline(Tail(qs))

\* for quote in quotes: f.write(quote + '\n')
RECURSIVE Written(_)
Written(qs) ==
    IF qs = <<>> THEN <<>>
    ELSE Head(qs) \o << "\n" >> \o Written(Tail(qs))

\* the characters of the quotes handed to save_quotes_to_file
Chars == {"a", " ", "\n"}

Texts == UNION {[1..k -> Chars] : k \in 0..MaxTextLen}

QuoteLists == UNION {[1..k -> Texts] : k \in 0..MaxSaved}

\* a list of quotes about to be saved to a file and read back
InitQuotes ==
    /\ input_status = "media"
    /\ Constructed
    /\ input_video = 30
    /\ pc = "save"
    /\ args = NoOptions
    /\ exit_code = -1
    /\ quote_file = <<>>
    /\ quotes \in QuoteLists

\* save_quotes_to_file(filename, quotes)
save_quotes_to_file ==
    /\ pc = "save"
    /\ quote_file' = Written(quotes)
    /\ pc' = "read"
    /\ UNCHANGED <<editor, args, exit_code, quotes>>

\* with open(args.quote_file, 'r') as f: quotes = [...]
read_quote_file ==
    /\ pc = "read"
    /\ quotes' = ReadQuotes(quote_file)
    /\ pc' = "done"
    /\ UNCHANGED <<editor, args, exit_code, quote_file>>

NextQuotes ==
    \/ save_quotes_to_file
    \/ read_quote_file

SpecQuotes == InitQuotes /\ [][NextQuotes]_vars

(* ------------------------- one run of main() -------------------------- *)
\* the default duration of add_intro_text / add_outro_text, which main()
\* does not override
DefaultBannerDuration == RInt(5)

\* wrappers the options of a command line add around the loaded file,
\* `file` being what the quote file holds
LayersOf(a, file) ==
    (IF a.intro THEN 1 ELSE 0) + (IF a.text THEN 1 ELSE 0)
    + (IF a.quote_file = "file" THEN Len(ReadQuotes(file)) ELSE 0)
    + (IF a.outro THEN 1 ELSE 0)

\* the command lines of the runs: --intro, --text with --start-time and
\* --duration, --quote-file naming a missing file or a file, --outro
CommandLines ==
    { a \in [intro : BOOLEAN, text : BOOLEAN,
             start_time : {RInt(t) : t \in StartTimes},
             given : BOOLEAN,
             duration : {RInt(0)} \cup {RInt(d) : d \in Durations},
             quote_file : {"none", "missing", "file"},
             outro : BOOLEAN] :
        /\ a.given <=> (a.duration # RInt(0))
        /\ ~a.text => (a.start_time = RInt(0) /\ ~a.given) }

\* the lines of the quote files of the runs, without their newline: an
\* empty line, a blank line, a quote, a quote with blanks around it
QuoteFileLines == { <<>>, << " " >>, << "a" >>, << " ", "b", " " >> }

\* the lines joined by newlines; `terminated` puts one after the last line
RECURSIVE JoinLines(_, _)
JoinLines(ls, terminated) ==
    IF ls = <<>> THEN <<>>
    ELSE IF Len(ls) = 1
    THEN Head(ls) \o (IF terminated THEN << "\n" >> ELSE <<>>)
    ELSE Head(ls) \o << "\n" >> \o JoinLines(Tail(ls), terminated)

\* the quote files of the runs: up to MaxQuotes lines
QuoteFiles ==
    { JoinLines(ls, t) :
        ls \in UNION {[1..k -> QuoteFileLines] : k \in 0..MaxQuotes},
        t \in BOOLEAN }

InitMain ==
    /\ input_status \in InputStatus
    /\ Constructed
    /\ pc = "validate"
    /\ args \in CommandLines
    /\ exit_code = -1
    /\ quote_file \in (IF args.quote_file = "file" THEN QuoteFiles
                                                   ELSE {<<>>})
    /\ LayersOf(args, quote_file) <= MaxLayers
    /\ quotes = <<>>

\* an exception leaves the try block for the handler, which exits with 1;
\* otherwise the run goes on with the next statement
Continue(next) ==
    IF last'.error = "none"
    THEN pc' = next /\ exit_code' = exit_code
    ELSE pc' = "exit" /\ exit_code' = 1

\* if not os.path.exists(args.input): sys.exit(1)
main_validate ==
    /\ pc = "validate"
    /\ IF input_status = "missing"
       THEN pc' = "exit" /\ exit_code' = 1
       ELSE pc' = "load" /\ exit_code' = exit_code
    /\ UNCHANGED <<editor, args, quote_file, quotes>>

\* editor = BiblicalVideoEditor(...); editor.load_video()
main_load ==
    /\ pc = "load"
    /\ load_video
    /\ Continue("intro")
    /\ UNCHANGED <<args, quote_file, quotes>>

\* if args.intro: editor.add_intro_text(args.intro)
main_intro ==
    /\ pc = "intro"
    /\ IF args.intro
       THEN add_intro_text(DefaultBannerDuration)
       ELSE UNCHANGED editor
    /\ Continue("text")
    /\ UNCHANGED <<args, quote_file, quotes>>

\* if args.text: editor.add_text_overlay(..., duration=args.duration,
\*                                       start_time=args.start_time, ...)
main_text ==
    /\ pc = "text"
    /\ IF args.text
       THEN add_text_overlay(Title, args.start_time, args.given,
                             args.duration)
       ELSE UNCHANGED editor
    /\ Continue("quotes")
    /\ UNCHANGED <<args, quote_file, quotes>>

\* a slip: the outro left out, the run going from the quotes straight to
\* save_video
main_quotes_ThenSave ==
    /\ pc = "quotes"
    /\ IF args.quote_file = "file"
       THEN /\ quotes' = ReadQuotes(quote_file)
            /\ main_quote_file(quotes')
       ELSE UNCHANGED <<editor, quotes>>
    /\ Continue("save")
    /\ UNCHANGED <<args, quote_file>>

\* a slip: the file opened without the os.path.exists test, a missing file
\* raising FileNotFoundError
main_quotes_MissingIsFatal ==
    /\ pc = "quotes"
    /\ IF args.quote_file = "file"
       THEN /\ quotes' = ReadQuotes(quote_file)
            /\ main_quote_file(quotes')
       ELSE IF args.quote_file = "missing"
       THEN /\ last' = NoArgs("open", "FileNotFoundError")
            /\ UNCHANGED <<input_status, input_video, video_clip, closed,
                           renders, quotes>>
       ELSE UNCHANGED <<editor, quotes>>
    /\ Continue("outro")
    /\ UNCHANGED <<args, quote_file>>

\* if args.quote_file: the quote loop if the file exists, a warning if not
main_quotes ==
    /\ pc = "quotes"
    /\ IF args.quote_file = "file"
       THEN /\ quotes' = ReadQuotes(quote_file)
            /\ main_quote_file(quotes')
       ELSE UNCHANGED <<editor, quotes>>
    /\ Continue("outro")
    /\ UNCHANGED <<args, quote_file>>

\* if args.outro: editor.add_outro_text(args.outro)
main_outro ==
    /\ pc = "outro"
    /\ IF args.outro
       THEN add_outro_text(DefaultBannerDuration)
       ELSE UNCHANGED editor
    /\ Continue("save")
    /\ UNCHANGED <<args, quote_file, quotes>>

\* editor.save_video()
main_save ==
    /\ pc = "save"
    /\ \E ok \in BOOLEAN : save_video(ok)
    /\ Continue("cleanup")
    /\ UNCHANGED <<args, quote_file, quotes>>

\* editor.cleanup(); main() returns and the process exits with 0
main_cleanup ==
    /\ pc = "cleanup"
    /\ cleanup
    /\ pc' = "exit"
    /\ exit_code' = 0
    /\ UNCHANGED <<args, quote_file, quotes>>

NextMain ==
    \/ main_validate
    \/ main_load
    \/ main_intro
    \/ main_text
    \/ main_quotes
    \/ main_outro
    \/ main_save
    \/ main_cleanup

SpecMain == InitMain /\ [][NextMain]_vars

(* ------------------- the timeline a clip renders to ------------------- *)
Shift(ranges, d) ==
    [i \in 1..Len(ranges) |->
        [ranges[i] EXCEPT !.from = RAdd(@, d), !.to = RAdd(@, d)]]

\* a slip: the intro clip concatenated behind the video, as the outro is
RECURSIVE Segments_IntroLast(_, _)
Segments_IntroLast(base, layers) ==
    IF layers = <<>>
    THEN << [kind |-> "base", from |-> RInt(0), to |-> base] >>
    ELSE LET top   == layers[Len(layers)]
             rest  == SubSeq(layers, 1, Len(layers) - 1)
             inner == Segments_IntroLast(base, rest)
         IN  IF top.kind = "overlay" THEN inner
             ELSE Append(inner,
                         [kind |-> top.kind,
                          from |-> ClipDuration(base, rest),
                          to |-> RAdd(ClipDuration(base, rest),
                                      top.duration)])

\* the segments of the output in playing order, each with the time range it
\* occupies: concatenate_videoclips plays its first clip, then its second
RECURSIVE Segments(_, _)
Segments(base, layers) ==
    IF layers = <<>>
    THEN << [kind |-> "base", from |-> RInt(0), to |-> base] >>
    ELSE LET top   == layers[Len(layers)]
             rest  == SubSeq(layers, 1, Len(layers) - 1)
             inner == Segments(base, rest)
         IN  CASE top.kind = "intro" ->
                    << [kind |-> "intro", from |-> RInt(0),
                        to |-> top.duration] >>
                    \o Shift(inner, top.duration)
               [] top.kind = "outro" ->
                    Append(inner,
                           [kind |-> "outro",
                            from |-> ClipDuration(base, rest),
                            to |-> RAdd(ClipDuration(base, rest),
                                        top.duration)])
               [] OTHER -> inner

\* the text overlays in the output with their time ranges, the one drawn
\* first (lowest) first: a CompositeVideoClip draws its clips in list order,
\* so a text clip lies over everything the clip under it shows.  It plays
\* from its start to start + duration of the clip it was composited on; an
\* intro added later moves it by the intro's duration
RECURSIVE Overlays(_, _)
Overlays(base, layers) ==
    IF layers = <<>> THEN <<>>
    ELSE LET top   == layers[Len(layers)]
             inner == Overlays(base, SubSeq(layers, 1, Len(layers) - 1))
         IN  CASE top.kind = "overlay" ->
                    Append(inner, [text |-> top.text, from |-> top.start,
                                   to |-> RAdd(top.start, top.duration)])
               [] top.kind = "intro" -> Shift(inner, top.duration)
               [] OTHER -> inner

(* ------------------------ reading a state ----------------------------- *)
\* the wrappers that were there before the most recent call
Prior == SubSeq(video_clip.layers, 1, Len(video_clip.layers) - last.n)

\* the wrappers the most recent call added
Added == SubSeq(video_clip.layers, Len(video_clip.layers) - last.n + 1,
                Len(video_clip.layers))

\* the timeline is the base segment alone: no intro, no outro, and no
\* overlay that reaches past the end of the base segment
OnlyBase(layers) ==
    \A i \in 1..Len(layers) :
        /\ layers[i].kind = "overlay"
        /\ RLe(RAdd(layers[i].start, layers[i].duration), video_clip.base)

\* the most recent call was the quote loop over n >= 1 quotes, run on the
\* base segment alone
PlacedOnBase ==
    /\ last.op = "main_quote_file"
    /\ last.n >= 1
    /\ OnlyBase(Prior)

End(o) == RAdd(o.start, o.duration)

(* ------------------------------ C1 ------------------------------------ *)
\* C1: on a base segment of length L, the quote loop over N >= 1 quotes
\* places quote i (counted from 0) at start L * (i + 1) / (N + 1) with
\* duration 5; L = 100 and N = 3 give the starts 25, 50, 75.
Thm_C1_EvenPlacement ==
    PlacedOnBase =>
        /\ Len(Added) = last.n
        /\ \A i \in 0..(last.n - 1) :
              LET o == Added[i + 1]
              IN  /\ o.kind = "overlay"
                  /\ o.start.num * (last.n + 1)
                        = input_video * (i + 1) * o.start.den
                  /\ o.duration = RInt(5)
        /\ (input_video = 100 /\ last.n = 3) =>
              /\ Added[1].start = RInt(25)
              /\ Added[2].start = RInt(50)
              /\ Added[3].start = RInt(75)

Wit_C1_EvenPlacement ==
    /\ PlacedOnBase
    /\ input_video = 100
    /\ last.n = 3
    /\ video_clip.layers =
          << Layer("overlay", << "a" >>, RInt(25), RInt(5)),
             Layer("overlay", << "b" >>, RInt(50), RInt(5)),
             Layer("overlay", << "c" >>, RInt(75), RInt(5)) >>

(* ------------------------------ C2 ------------------------------------ *)
\* C2: every overlay the quote loop places on a base segment of length L
\* satisfies 0 <= startTime and startTime + duration <= L.
Cex_C2_QuotesWithinSegment ==
    PlacedOnBase =>
        \A i \in 1..Len(Added) :
            /\ RLe(RInt(0), Added[i].start)
            /\ RLe(End(Added[i]), RInt(input_video))

(* ------------------------------ C3 ------------------------------------ *)
\* C3: the quote loop yields N overlays for N quotes, and an overlay whose
\* startTime + 5 exceeds L has its duration clamped to L - startTime.
Cex_C3_ClampedToFit ==
    PlacedOnBase =>
        /\ Len(Added) = last.n
        /\ \A i \in 1..Len(Added) :
              Added[i].duration =
                 IF RLt(RInt(input_video), RAdd(Added[i].start, RInt(5)))
                 THEN RSub(RInt(input_video), Added[i].start)
                 ELSE RInt(5)

(* ------------------------------ C4 ------------------------------------ *)
\* C4: consecutive overlays of the quote loop do not overlap:
\* startTime(i) + duration(i) <= startTime(i + 1).
Cex_C4_QuotesDisjoint ==
    PlacedOnBase =>
        \A i \in 1..(Len(Added) - 1) :
            RLe(End(Added[i]), Added[i + 1].start)

(* ------------------------------ C5 ------------------------------------ *)
\* the most recent call was add_text_overlay(duration=None), run on the
\* base segment alone
CaptionOnBase ==
    /\ last.op = "add_text_overlay"
    /\ last.error = "none"
    /\ ~last.given
    /\ OnlyBase(Prior)

\* C5: a caption added without a duration on a base segment of length L
\* starts at the given startTime (0 when omitted) and gets duration
\* L - startTime; with no timing at all it is (0, L), (0, 30) for L = 30.
Thm_C5_DefaultDuration ==
    CaptionOnBase =>
        /\ Len(Added) = 1
        /\ Added[1].kind = "overlay"
        /\ Added[1].start = last.start
        /\ Added[1].duration.den = 1
        /\ Added[1].duration.num + last.start.num = input_video
        /\ (last.start = RInt(0)) => Added[1].duration = RInt(input_video)

Wit_C5_DefaultDuration ==
    /\ CaptionOnBase
    /\ input_video = 30
    /\ last.start = RInt(0)
    /\ video_clip.layers = << Layer("overlay", Title, RInt(0), RInt(30)) >>

(* ------------------------------ C6 ------------------------------------ *)
\* C6: add_text_overlay with a startTime greater than the length L of the
\* base segment fails with InvalidTiming and adds no overlay; no overlay
\* with a negative duration is ever on the timeline.
Cex_C6_StartPastEndRejected ==
    /\ (/\ last.op = "add_text_overlay"
        /\ video_clip.loaded
        /\ OnlyBase(Prior)
        /\ RLt(RInt(input_video), last.start))
          => (last.error = "InvalidTiming" /\ last.n = 0)
    /\ \A i \in 1..Len(video_clip.layers) :
          video_clip.layers[i].kind = "overlay"
             => RLe(RInt(0), video_clip.layers[i].duration)

(* ------------------------------ C7 ------------------------------------ *)
\* C7: every overlay on the timeline ends no later than the timeline, and
\* adding an overlay leaves the total length of the timeline as it was.
Cex_C7_OverlayKeepsLength ==
    /\ \A i \in 1..Len(Overlays(video_clip.base, video_clip.layers)) :
          RLe(Overlays(video_clip.base, video_clip.layers)[i].to,
              duration(video_clip))
    /\ (/\ last.op \in {"add_text_overlay", "main_quote_file"}
        /\ last.error = "none")
          => duration(video_clip) = last.before

(* ------------------------------ C8 ------------------------------------ *)
\* the time ranges a and b share more than a point
Intersect(a, b) ==
    /\ RLt(a.from, a.to)
    /\ RLt(b.from, b.to)
    /\ RLt(a.from, b.to)
    /\ RLt(b.from, a.to)

\* C8: no caption overlay covers any part of an intro or outro segment,
\* whatever the order in which captions, intro and outro were added.
Cex_C8_OverlayOffBanners ==
    \A i \in 1..Len(Overlays(video_clip.base, video_clip.layers)) :
        \A j \in 1..Len(Segments(video_clip.base, video_clip.layers)) :
            Segments(video_clip.base, video_clip.layers)[j].kind # "base"
               => ~Intersect(Overlays(video_clip.base, video_clip.layers)[i],
                             Segments(video_clip.base, video_clip.layers)[j])

(* ------------------------------ C9 ------------------------------------ *)
SegmentKinds ==
    [j \in 1..Len(Segments(video_clip.base, video_clip.layers)) |->
        Segments(video_clip.base, video_clip.layers)[j].kind]

\* C9: after any sequence of add_intro_text / add_outro_text calls the
\* segments are ordered [intro?, base, outro?].
Cex_C9_SegmentOrder ==
    video_clip.loaded =>
        SegmentKinds \in { << "base" >>,
                           << "intro", "base" >>,
                           << "base", "outro" >>,
                           << "intro", "base", "outro" >> }

(* ------------------------------ C10 ----------------------------------- *)
Count(kind) ==
    Cardinality({j \in 1..Len(SegmentKinds) : SegmentKinds[j] = kind})

\* C10: the timeline holds at most one intro segment and at most one outro
\* segment.
Cex_C10_OneIntroOneOutro ==
    /\ Count("intro") <= 1
    /\ Count("outro") <= 1

(* ------------------------------ C11 ----------------------------------- *)
HasKind(layers, kind) == \E i \in 1..Len(layers) : layers[i].kind = kind

\* C11: add_intro_text on a timeline that already has an intro, and
\* add_outro_text on one that already has an outro, fails with
\* DuplicateSegment and leaves the timeline as it was.
Cex_C11_SecondBannerRejected ==
    \A kind \in {"intro", "outro"} :
        (/\ last.op = (IF kind = "intro" THEN "add_intro_text"
                                         ELSE "add_outro_text")
         /\ video_clip.loaded
         /\ HasKind(Prior, kind))
           => /\ last.error = "DuplicateSegment"
              /\ last.n = 0
              /\ duration(video_clip) = last.before

(* ------------------------------ C12 ----------------------------------- *)
\* the timeline got one intro and one outro, in either order, and nothing
\* else
IntroAndOutro ==
    /\ video_clip.loaded
    /\ Len(video_clip.layers) = 2
    /\ HasKind(video_clip.layers, "intro")
    /\ HasKind(video_clip.layers, "outro")

BannerDuration(kind) ==
    (CHOOSE l \in {video_clip.layers[i] : i \in 1..Len(video_clip.layers)} :
        l.kind = kind).duration

\* C12: an intro of duration d1 and an outro of duration d2, added in
\* either order to a base segment of length L, give a timeline of length
\* d1 + L + d2 with the segments [intro, base, outro], the base segment
\* still L long; 5 + 30 + 5 = 40.
Thm_C12_IntroBaseOutro ==
    IntroAndOutro =>
        LET d1  == BannerDuration("intro")
            d2  == BannerDuration("outro")
            seg == Segments(video_clip.base, video_clip.layers)
        IN  /\ d1.den = 1 /\ d2.den = 1
            /\ duration(video_clip) = RInt(d1.num + input_video + d2.num)
            /\ SegmentKinds = << "intro", "base", "outro" >>
            /\ seg[1].from = RInt(0) /\ seg[1].to = d1
            /\ seg[2].from = d1 /\ seg[2].to = RInt(d1.num + input_video)
            /\ seg[3].from = seg[2].to
            /\ seg[3].to = RInt(d1.num + input_video + d2.num)
            /\ (input_video = 30 /\ d1 = RInt(5) /\ d2 = RInt(5))
                  => duration(video_clip) = RInt(40)

\* the outro was added first, the intro second: 5 + 30 + 5 = 40
Wit_C12_IntroBaseOutro ==
    /\ IntroAndOutro
    /\ input_video = 30
    /\ video_clip.layers[1].kind = "outro"
    /\ last.op = "add_intro_text"
    /\ BannerDuration("intro") = RInt(5)
    /\ BannerDuration("outro") = RInt(5)
    /\ duration(video_clip) = RInt(40)

(* ------------------------------ C13 ----------------------------------- *)
NeedsVideo ==
    {"add_text_overlay", "add_intro_text", "add_outro_text", "save_video"}

\* C13: before load_video has succeeded, add_text_overlay, add_intro_text,
\* add_outro_text and save_video each fail with an error and change
\* nothing: there is still no clip, nothing was rendered or closed.
Thm_C13_UnloadedRejects ==
    [][(~video_clip.loaded /\ last'.op \in NeedsVideo)
          => /\ last'.error = "ValueError"
             /\ last'.n = 0
             /\ video_clip' = None
             /\ video_clip' = video_clip
             /\ renders' = renders
             /\ closed' = closed]_vars

Wit_C13_UnloadedRejects ==
    /\ video_clip = None
    /\ last.op = "save_video"
    /\ last.error = "ValueError"
    /\ renders = 0

(* ------------------------------ C14 ----------------------------------- *)
Annotations == {"add_text_overlay", "add_intro_text", "add_outro_text"}

\* C14: once save_video has succeeded, every add_text_overlay,
\* add_intro_text and add_outro_text fails with InvalidState and leaves the
\* timeline unchanged.
Cex_C14_SealedRejectsAnnotation ==
    (renders >= 1 /\ last.op \in Annotations)
        => (last.error = "InvalidState" /\ last.n = 0)

(* ------------------------------ C15 ----------------------------------- *)
\* C15: once cleanup has closed the clip, every further call of a method
\* fails with InvalidState.
Cex_C15_ReleasedRejectsAll ==
    (closed /\ last.op # "cleanup") => last.error = "InvalidState"

(* ------------------------------ C16 ----------------------------------- *)
\* C16: save_video succeeds at most once on an editor.
Cex_C16_RendersOnce == renders <= 1

(* ------------------------------ C17 ----------------------------------- *)
RenderFailed == last.op = "save_video" /\ last.error = "IOError"

\* C17: when write_videofile raises, save_video fails with that error and
\* the clip (segments, overlays, lengths) is as before the call, nothing is
\* counted as rendered and the clip is not closed; nothing that makes
\* save_video refuse a call (no clip, a closed file clip) holds afterwards.
Thm_C17_RenderFailureKeepsState ==
    [][(last'.op = "save_video" /\ last'.error = "IOError")
          => /\ video_clip' = video_clip
             /\ renders' = renders
             /\ closed' = closed
             /\ input_video' = input_video
             /\ input_status' = input_status
             /\ video_clip'.loaded
             /\ ~(closed' /\ video_clip'.layers = <<>>)]_vars

Wit_C17_RenderFailureKeepsState ==
    /\ RenderFailed
    /\ video_clip.loaded
    /\ Len(video_clip.layers) >= 1
    /\ ~closed
    /\ renders = 0

(* ------------------------------ C18 ----------------------------------- *)
\* C18: a run of main() that has loaded the video has closed it when the
\* run ends, on every path: after a successful save_video and after an
\* error in an annotation or in save_video.
Cex_C18_ClosedOnEveryExit ==
    (pc = "exit" /\ video_clip.loaded) => closed

(* ------------------------------ C19 ----------------------------------- *)
\* C19: load_video of a path that is not a readable media file fails, and
\* the editor stays without a clip: nothing is loaded, rendered or closed,
\* and every later annotation or save_video fails.
Thm_C19_UnreadableStaysUnloaded ==
    (input_status # "media") =>
        /\ video_clip = None
        /\ renders = 0
        /\ ~closed
        /\ (last.op \in NeedsVideo \cup {"load_video"})
              => (last.error # "none" /\ last.n = 0)

Wit_C19_UnreadableStaysUnloaded ==
    /\ input_status = "unreadable"
    /\ last.op = "load_video"
    /\ last.error = "IOError"
    /\ video_clip = None

(* ------------------------------ C20 ----------------------------------- *)
\* a requested caption whose start_time lies past the end of the video
InvalidTiming ==
    args.text /\ RLt(RInt(input_video), args.start_time)

\* C20: a run of main() ends with exit code 1 when the input file is
\* missing or unreadable, when save_video failed, or when a requested
\* caption has an invalid timing, and with exit code 0 otherwise.
Cex_C20_ExitCode ==
    (pc = "exit") =>
        /\ exit_code \in {0, 1}
        /\ (exit_code = 1) <=>
              \/ input_status # "media"
              \/ (last.op = "save_video" /\ last.error # "none")
              \/ InvalidTiming


(* ------------------------------ C21 ----------------------------------- *)
\* the overlays the quote loop places for the quotes qs on a file of length
\* L that was just loaded
PlannedAfresh(L, qs) ==
    AddQuotes(VideoFileClip(L), Interval(RInt(L), Len(qs)), 0, qs).layers

\* C21: the (startTime, duration) list the quote loop places depends on
\* nothing but the length L of the base segment and the quotes: it is the
\* list the loop places for the same quotes on a file of length L that was
\* just loaded, whatever was added to the clip before.
Cex_C21_PlacementDependsOnBaseOnly ==
    (last.op = "main_quote_file") =>
        LET fresh == PlannedAfresh(input_video,
                                   [i \in 1..Len(Added) |-> Added[i].text])
        IN  /\ Len(Added) = Len(fresh)
            /\ \A i \in 1..Len(Added) :
                  /\ Added[i].start = fresh[i].start
                  /\ Added[i].duration = fresh[i].duration


(* ------------------------------ C22 ----------------------------------- *)
\* a quote that is not blank, has no newline in it and no whitespace at
\* either end
Clean(q) ==
    /\ q # <<>>
    /\ \A i \in 1..Len(q) : q[i] # "\n"
    /\ ~IsSpace(q[1])
    /\ ~IsSpace(q[Len(q)])

AllClean(qs) == \A i \in 1..Len(qs) : Clean(qs[i])

\* C22: for a list of clean quotes, save_quotes_to_file writes a file of
\* exactly len(quotes) lines, line i being quote i followed by a newline,
\* and reading that file the way main() reads a quote file gives the same
\* list back.
Thm_C22_SaveThenReadBack ==
    [][AllClean(quotes) =>
          /\ (pc = "save") =>
                /\ Len(readlines(quote_file')) = Len(quotes)
                /\ \A i \in 1..Len(quotes) :
                      readlines(quote_file')[i] = quotes[i] \o << "\n" >>
          /\ (pc = "read") => quotes' = quotes]_vars

Wit_C22_SaveThenReadBack ==
    /\ pc = "done"
    /\ quotes = << << "a" >>, << "a", "a" >> >>
    /\ quote_file = << "a", "\n", "a", "a", "\n" >>


(* ------------------------------ C23 ----------------------------------- *)
\* where the base segment starts in the clip the wrappers `layers` make
BaseStart(layers) ==
    LET seg == Segments(video_clip.base, layers)
    IN  seg[CHOOSE j \in 1..Len(seg) : seg[j].kind = "base"].from

\* C23: the quote loop divides the length of the base segment, also when an
\* intro was added before it: with no caption added earlier, caption i of N
\* (counted from 0) starts baseLength / (N + 1) * (i + 1) after the start of
\* the base segment.
Cex_C23_PlacedAcrossBaseSegment ==
    (/\ last.op = "main_quote_file"
     /\ last.n >= 1
     /\ ~HasKind(Prior, "overlay"))
       => \A i \in 1..last.n :
             Added[i].start =
                RAdd(BaseStart(Prior),
                     RMul(Interval(RInt(input_video), last.n), RInt(i)))


(* ------------------------------ C24 ----------------------------------- *)
\* how far the editor has come: 0 nothing loaded, 1 the file loaded,
\* 2 something added to it, 3 saved, 4 closed
Progress(clip, saved, isClosed) ==
    IF isClosed THEN 4
    ELSE IF saved >= 1 THEN 3
    ELSE IF ~clip.loaded THEN 0
    ELSE IF clip.layers = <<>> THEN 1
    ELSE 2

\* C24: no call takes the editor back to an earlier stage of
\* unloaded -> loaded -> composing -> saved -> closed, and load_video on an
\* editor that already holds a clip leaves that clip, with its overlays,
\* intro and outro, as it is.
Cex_C24_OnlyForward ==
    [][/\ Progress(video_clip', renders', closed')
             >= Progress(video_clip, renders, closed)
       /\ (last'.op = "load_video" /\ video_clip.loaded)
             => video_clip' = video_clip]_vars


(* ------------------------------ C25 ----------------------------------- *)
\* the overlays of the clip, lowest first
Stack(clip) == Overlays(clip.base, clip.layers)

StackTexts(clip) == [i \in 1..Len(Stack(clip)) |-> Stack(clip)[i].text]

\* C25: the overlays are drawn in the order they were added.  A successful
\* add_text_overlay puts its overlay on top of the overlays already there
\* and leaves those as they were; the quote loop puts its captions on top
\* in list order, caption i under caption i + 1; an intro or an outro added
\* later does not reorder them.
Thm_C25_DrawnInCallOrder ==
    [][LET before == Stack(video_clip)
           after  == Stack(video_clip')
       IN  /\ (last'.op = "add_text_overlay" /\ last'.error = "none")
                 => /\ Len(after) = Len(before) + 1
                    /\ SubSeq(after, 1, Len(before)) = before
                    /\ after[Len(after)]
                          = [text |-> Title, from |-> last'.start,
                             to |-> RAdd(last'.start, last'.duration)]
           /\ (last'.op = "main_quote_file")
                 => /\ Len(after) = Len(before) + last'.n
                    /\ SubSeq(after, 1, Len(before)) = before
                    /\ [i \in 1..last'.n |-> after[Len(before) + i].text]
                          = QuoteList(last'.n)
           /\ (last'.op \in {"add_intro_text", "add_outro_text"})
                 => StackTexts(video_clip') = StackTexts(video_clip)]_vars

\* a caption, then two quotes over it
Wit_C25_DrawnInCallOrder ==
    /\ last.op = "main_quote_file"
    /\ last.n = 2
    /\ StackTexts(video_clip) = << Title, << "a" >>, << "b" >> >>
    /\ Intersect(Stack(video_clip)[1], Stack(video_clip)[2])


(* ------------------------------ C26 ----------------------------------- *)
\* the time range the most recent call asked for
Requested(call) ==
    [from |-> call.start, to |-> RAdd(call.start, call.duration)]

\* C26: add_text_overlay on a clip that holds an overlay whose time range
\* intersects the requested one succeeds, adds the overlay with the start
\* and duration asked for, and leaves the overlays already there as they
\* were.
Thm_C26_OverlapAccepted ==
    [][(/\ last'.op = "add_text_overlay"
        /\ video_clip.loaded
        /\ \E i \in 1..Len(Stack(video_clip)) :
              Intersect(Stack(video_clip)[i], Requested(last')))
          => /\ last'.error = "none"
             /\ last'.given => last'.duration \in {RInt(d) : d \in Durations}
             /\ video_clip'.layers =
                   Append(video_clip.layers,
                          Layer("overlay", Title, last'.start,
                                last'.duration))
             /\ Stack(video_clip') =
                   Append(Stack(video_clip),
                          [text |-> Title, from |-> last'.start,
                           to |-> RAdd(last'.start, last'.duration)])]_vars

\* on a 30 s video, a caption over 0..5 added to one over 0..30
Wit_C26_OverlapAccepted ==
    /\ last.op = "add_text_overlay"
    /\ last.error = "none"
    /\ input_video = 30
    /\ Len(Stack(video_clip)) = 2
    /\ Stack(video_clip)[1].from = RInt(0) /\ Stack(video_clip)[1].to = RInt(30)
    /\ Stack(video_clip)[2].from = RInt(0) /\ Stack(video_clip)[2].to = RInt(5)
    /\ Intersect(Stack(video_clip)[1], Stack(video_clip)[2])


(* ------------------------------ C27 ----------------------------------- *)
\* the most recent call added a caption right after a call added an intro
CaptionAfterIntro ==
    /\ last.op = "add_text_overlay"
    /\ last.error = "none"
    /\ Len(video_clip.layers) >= 2
    /\ video_clip.layers[Len(video_clip.layers) - 1].kind = "intro"

\* the clip the same two calls give in the other order: the caption first,
\* then the intro
CaptionBeforeIntro ==
    LET n     == Len(video_clip.layers)
        under == [video_clip EXCEPT !.layers = SubSeq(@, 1, n - 2)]
    IN  ConcatIntro(
            CompositeVideoClip(under, Title, last.start,
                ResolveDuration(last.given, last.duration, duration(under),
                                last.start)),
            video_clip.layers[n - 1].duration)

\* C27: add_text_overlay and add_intro_text commute: the intro and then the
\* caption give the same segments and the same overlay time ranges in the
\* output as the caption and then the intro, for every caption timing and
\* intro duration.
Cex_C27_CaptionIntroCommute ==
    CaptionAfterIntro =>
        /\ Segments(video_clip.base, video_clip.layers)
              = Segments(CaptionBeforeIntro.base, CaptionBeforeIntro.layers)
        /\ Stack(video_clip) = Stack(CaptionBeforeIntro)


(* ------------------------------ C28 ----------------------------------- *)
\* what the wrappers of the clip show, innermost first
Shown(layers) ==
    [i \in 1..Len(layers) |->
        [kind |-> layers[i].kind, text |-> layers[i].text]]

\* what a run with the options a and the quote file `file` is asked to add,
\* in the order intro, --text caption, quotes, outro
Requests(a, file) ==
    (IF a.intro THEN << [kind |-> "intro", text |-> Title] >> ELSE <<>>)
    \o (IF a.text THEN << [kind |-> "overlay", text |-> Title] >> ELSE <<>>)
    \o (IF a.quote_file = "file"
        THEN [i \in 1..Len(ReadQuotes(file)) |->
                 [kind |-> "overlay", text |-> ReadQuotes(file)[i]]]
        ELSE <<>>)
    \o (IF a.outro THEN << [kind |-> "outro", text |-> Title] >> ELSE <<>>)

\* C28: a run of main() works in the order load, intro, --text caption,
\* quotes of the quote file, outro, save_video, cleanup: what has been
\* added to the clip is at any time a leading part of the requests in that
\* order; save_video succeeds at most once and only when every request has
\* been added; the clip is closed only after save_video, and then nothing
\* more is added.
Thm_C28_FixedOrder ==
    /\ Len(video_clip.layers) <= Len(Requests(args, quote_file))
    /\ Shown(video_clip.layers)
          = SubSeq(Requests(args, quote_file), 1, Len(video_clip.layers))
    /\ (video_clip.layers # <<>>) => video_clip.loaded
    /\ renders <= 1
    /\ (renders = 1) =>
          /\ Shown(video_clip.layers) = Requests(args, quote_file)
          /\ pc \in {"cleanup", "exit"}
    /\ closed => (renders = 1 /\ pc = "exit" /\ exit_code = 0)
    /\ (pc = "exit" /\ exit_code = 0) => (renders = 1 /\ closed)

\* a run with --intro, --quote-file (one quote) and --outro that ended well
Wit_C28_FixedOrder ==
    /\ pc = "exit"
    /\ exit_code = 0
    /\ renders = 1
    /\ closed
    /\ last.op = "cleanup"
    /\ Shown(video_clip.layers) =
          << [kind |-> "intro", text |-> Title],
             [kind |-> "overlay", text |-> << "b" >>],
             [kind |-> "outro", text |-> Title] >>


(* ------------------------------ C29 ----------------------------------- *)
\* no newline among the characters i..j of the text c
SameLine(c, i, j) == \A k \in i..j : c[k] # "\n"

\* the positions of the first and of the last non-blank character of the
\* lines of the text c that have one
QuoteStarts(c) ==
    { i \in 1..Len(c) :
        /\ ~IsSpace(c[i])
        /\ \A j \in 1..(i - 1) : SameLine(c, j, i) => IsSpace(c[j]) }

QuoteEnds(c) ==
    { i \in 1..Len(c) :
        /\ ~IsSpace(c[i])
        /\ \A j \in (i + 1)..Len(c) : SameLine(c, i, j) => IsSpace(c[j]) }

\* the k-th smallest number of the set S
Kth(S, k) == CHOOSE x \in S : Cardinality({y \in S : y <= x}) = k

\* the quote loop of a run has just been done on an existing quote file
QuoteFileRead ==
    /\ args.quote_file = "file"
    /\ last.op = "main_quote_file"

\* C29: the captions of a quote file are its lines without the whitespace
\* around them, lines of whitespace only left out, in file order; N of
\* interval = duration / (N + 1) is the number of those lines; a file with
\* no such line adds nothing and the run goes on.
Thm_C29_QuotesOfFile ==
    QuoteFileRead =>
        LET N == Cardinality(QuoteStarts(quote_file))
        IN  /\ last.error = "none"
            /\ pc \in {"outro", "save"}
            /\ exit_code = -1
            /\ last.n = N
            /\ Len(quotes) = N
            /\ Len(Added) = N
            /\ \A k \in 1..N :
                  /\ quotes[k] = SubSeq(quote_file,
                                        Kth(QuoteStarts(quote_file), k),
                                        Kth(QuoteEnds(quote_file), k))
                  /\ Added[k].kind = "overlay"
                  /\ Added[k].text = quotes[k]
                  /\ Added[k].start.num * (N + 1) * last.before.den
                        = last.before.num * k * Added[k].start.den
            /\ (N = 0) => video_clip.layers = Prior

\* a blank line, a quote with blanks around it, a quote and no final newline
Wit_C29_QuotesOfFile ==
    /\ QuoteFileRead
    /\ quote_file = << " ", "\n", " ", "b", " ", "\n", "a" >>
    /\ quotes = << << "b" >>, << "a" >> >>
    /\ Len(Added) = 2
    /\ Added[1].text = << "b" >>
    /\ Added[2].text = << "a" >>


(* ------------------------------ C30 ----------------------------------- *)
\* the clip main() builds from the options a on a file of length L when no
\* quote is added: the intro, the --text caption, the outro
WithoutQuotes(a, L) ==
    LET c0 == VideoFileClip(L)
        c1 == IF a.intro THEN ConcatIntro(c0, DefaultBannerDuration) ELSE c0
        c2 == IF a.text
              THEN CompositeVideoClip(c1, Title, a.start_time,
                       ResolveDuration(a.given, a.duration, duration(c1),
                                       a.start_time))
              ELSE c1
    IN  IF a.outro THEN ConcatOutro(c2, DefaultBannerDuration) ELSE c2

\* C30: a run whose --quote-file names a missing file reads no quotes and
\* adds no quote overlay; it goes on to the outro and to save_video, saves
\* the clip the other options ask for, and ends with exit code 0 unless
\* the input cannot be loaded or write_videofile fails.
Thm_C30_MissingQuoteFile ==
    (args.quote_file = "missing") =>
        /\ quotes = <<>>
        /\ last.op # "main_quote_file"
        /\ \A i \in 1..Len(video_clip.layers) :
              video_clip.layers[i].kind = "overlay"
                 => (args.text /\ video_clip.layers[i].text = Title)
        /\ (pc \in {"save", "cleanup"} \/ renders = 1)
              => video_clip = WithoutQuotes(args, input_video)
        /\ (pc = "exit") =>
              /\ (input_status = "media")
                    => last.op \in {"save_video", "cleanup"}
              /\ (exit_code = 0) <=>
                    (input_status = "media" /\ renders = 1)
              /\ (exit_code = 0) => last.op = "cleanup"

\* --intro, --text and a missing quote file: both were added and the run
\* ended with exit code 0
Wit_C30_MissingQuoteFile ==
    /\ args.quote_file = "missing"
    /\ args.intro
    /\ args.text
    /\ pc = "exit"
    /\ exit_code = 0
    /\ renders = 1
    /\ Len(video_clip.layers) = 2

====
